---------------------------- MODULE Spec2Model ----------------------------
(***************************************************************************)
(* Translation verification engine of language-switcher                    *)
(* (lang-switcher.py, class TranslationTester).                            *)
(*                                                                         *)
(* The tester drives a browser through the pages of a web application,     *)
(* switches the UI language (en, kh, cn), snapshots the text elements of   *)
(* the page and compares them with the rows of a translation spreadsheet.  *)
(*                                                                         *)
(* Texts are sequences of characters, so that strip() and lower() are      *)
(* computed.  A blank spreadsheet cell is the float NaN of pandas.         *)
(***************************************************************************)
EXTENDS Integers, Sequences, FiniteSets, TLC

VARIABLES
    pc,               \* position of the running method
    caller,           \* "run_test" or "client": who called the page operations
    driver,           \* self.driver: "none", "open", "quit"
    translations_df,  \* self.translations_df: None, or the rows of the DataFrame
    results,          \* self.results
    current_page,     \* self.current_page (index of the navigation path, 0 = "")
    shown,            \* the page the browser displays
    ret,              \* value returned by run_test, None while it runs
    report_file,      \* value returned by generate_report, None before
    page,             \* run_test: index of the path in navigation_paths
    uiLang,           \* language the application currently renders
    dom,              \* the rendered page: sequence of nodes in document order
    change_ok,        \* value returned by the last change_language call
    elements,         \* check_page_translations: the English snapshot
    english_elements, \* check_page_translations: dict "element_i" -> text, in insertion order
    new_elements,     \* snapshot taken after a language switch / scan_dynamic_content: new_elements
    lang,             \* loop variable lang_code: "kh" or "cn"
    i,                \* loop index
    elem,             \* check_element_translations: locals of the element being checked
    log,              \* the lines the last step wrote to the logger
    calls,            \* number of operations the client has invoked
    faults,           \* number of failures the environment has produced
    excel_path,       \* self.excel_path: the spreadsheet file it names
    translation_lookup, \* self.translation_lookup: key -> {en, kh, cn}, in insertion order
    switched,         \* the language was switched since the last get_page_elements()
    wrapper,          \* retry: arguments and locals of a call of the wrapped function
    session,          \* run_test_on_browser: its local driver, and the quit() calls made
    pool              \* run_parallel_tests: its futures, the testers' results, its result dict

vars == <<pc, caller, driver, translations_df, results, current_page, shown,
          ret, report_file, page, uiLang, dom, change_ok, elements, english_elements, new_elements,
          lang, i, elem, log, calls, faults, excel_path, translation_lookup,
          switched, wrapper, session, pool>>

-----------------------------------------------------------------------------
(* Bounds *)

\* number of entries of navigation_paths that are walked
MaxPages == 2

\* number of comparisons one worker of run_parallel_tests makes
MaxComparisons == 2

\* number of operations a client invokes on the tester object
MaxCalls == 2

\* number of times the environment departs from the expected course: a node
\* going stale, a language switch or a navigation failing, a re-rendering
\* that reorders or drops nodes
MaxFaults == 2

-----------------------------------------------------------------------------
(* Values *)

None == <<"None">>

\* a blank cell as pandas.read_excel delivers it (float nan): not a string
NaN == <<"NaN">>

Langs == <<"kh", "cn">>

\* str.lower(), character by character
LowerChar(c) ==
    CASE c = "S" -> "s"
      [] c = "O" -> "o"
      [] c = "C" -> "c"
      [] c = "Q" -> "q"
      [] OTHER -> c

Lower(s) == [k \in 1..Len(s) |-> LowerChar(s[k])]

RECURSIVE LStrip(_)
LStrip(s) == IF s # <<>> /\ Head(s) = " " THEN LStrip(Tail(s)) ELSE s

RECURSIVE RStrip(_)
RStrip(s) ==
    IF s # <<>> /\ s[Len(s)] = " " THEN RStrip(SubSeq(s, 1, Len(s) - 1)) ELSE s

\* str.strip()
Strip(s) == RStrip(LStrip(s))


-----------------------------------------------------------------------------
(* The translation spreadsheet *)

\* the list of load_translations without its last entry
required_columns_NoCNConfirm ==
    {"Key", "Original EN", "Original CN", "Original KH", "KH Confirm from BIC"}

\* the columns load_translations looks for
required_columns ==
    {"Key", "Original EN", "Original CN", "Original KH",
     "KH Confirm from BIC", "CN Confirm from BIC"}

Row(k, en, cn, kh, khc, cnc) ==
    [Key |-> k, OriginalEN |-> en, OriginalCN |-> cn, OriginalKH |-> kh,
     KHConfirm |-> khc, CNConfirm |-> cnc]

\* the rows of the spreadsheet: row 2 has a blank "KH Confirm from BIC" cell
\* and a "CN Confirm from BIC" cell that ends with a space, row 3 repeats the
\* key of row 1
SheetRows ==
    << Row("k1", <<"S", "u">>, <<"v">>, <<"w">>, <<"x">>, <<"y">>),
       Row("k2", <<"O">>,      <<"O">>, <<"o">>, NaN,     <<"O", " ">>),
       Row("k1", <<"C">>,      <<"d">>, <<"e">>, <<"f">>, <<"g">>) >>

\* the column headers of a complete sheet
SheetColumns ==
    {"Key", "Original EN", "Original CN", "Original KH",
     "KH Confirm from BIC", "CN Confirm from BIC"}

\* the number of further rows a sheet may have, whose keys and texts occur on
\* no page: they count for len(df) and are not spelled out
OtherRows == {0, 4998}

\* the files self.excel_path may name: a complete sheet, small or large, and
\* the sheets that lack one of the columns
ExcelFiles ==
    {[columns |-> SheetColumns, rows |-> SheetRows, others |-> n] : n \in OtherRows}
    \cup {[columns |-> SheetColumns \ {c}, rows |-> SheetRows, others |-> 0] :
             c \in SheetColumns}

\* Series.str.lower() == text.lower(): a NaN cell compares unequal
StrLowerEq(cell, text) == cell # NaN /\ Lower(cell) = Lower(text)

\* df[df['Original EN'].str.lower() == text.lower()]
MatchesByEN(df, text) ==
    LET Keep(r) == StrLowerEq(r.OriginalEN, text) IN SelectSeq(df, Keep)

\* df[df['Key'] == key]
MatchesByKey(df, key) ==
    LET Keep(r) == r.Key = key IN SelectSeq(df, Keep)

\* key in df['Key'].values
KeyInCatalog(df, key) == \E k \in 1..Len(df) : df[k].Key = key

\* the draft columns 'Original KH' / 'Original CN' in place of the confirmed ones
ConfirmColumn_Original(row, lang_code) ==
    IF lang_code = "kh" THEN row.OriginalKH
    ELSE IF lang_code = "cn" THEN row.OriginalCN
    ELSE row.OriginalEN

\* the column checked for a language: the confirmed translation for kh and cn
ConfirmColumn(row, lang_code) ==
    IF lang_code = "kh" THEN row.KHConfirm
    ELSE IF lang_code = "cn" THEN row.CNConfirm
    ELSE row.OriginalEN

-----------------------------------------------------------------------------
(* The application under test: pages, nodes, rendering *)

\* an attribute that is absent or empty: get_attribute gives None or ""
NoId == [pre |-> "", rest |-> ""]

KeyAttrs == <<"data-translation-key", "data-i18n", "data-key", "i18n-key">>

NoAttrs == [a \in {KeyAttrs[k] : k \in 1..Len(KeyAttrs)} |-> ""]

Texts(en, kh, cn) == [en |-> en, kh |-> kh, cn |-> cn]

\* the logical elements of the two page layouts of the application.
\* Layout 1: two buttons with ids, the second of which shows only white space
\* in Chinese; layout 2: a span carrying a key attribute followed, in
\* document order, by a heading; no ids.
Layouts ==
    << << [eid |-> 1, tag |-> "button", id |-> [pre |-> "", rest |-> "a"],
           cls |-> <<>>, attrs |-> NoAttrs,
           text |-> Texts(<<"s", "u">>, <<"x">>, <<"v">>)],
          [eid |-> 2, tag |-> "button", id |-> [pre |-> "", rest |-> "b"],
           cls |-> <<>>, attrs |-> NoAttrs,
           text |-> Texts(<<"O", " ">>, <<"o">>, <<" ">>)] >>,
       << [eid |-> 3, tag |-> "span", id |-> NoId,
           cls |-> << [pre |-> "", rest |-> "btn"], [pre |-> "", rest |-> "big"] >>,
           attrs |-> [NoAttrs EXCEPT !["data-i18n"] = "k2"],
           text |-> Texts(<<"C">>, <<"x">>, <<"O">>)],
          [eid |-> 4, tag |-> "h1", id |-> NoId,
           cls |-> <<>>, attrs |-> NoAttrs,
           text |-> Texts(<<"Q">>, <<"q">>, <<"q">>)] >> >>

\* the page reached by the p-th navigation path
PageLayout(p) == Layouts[((p - 1) % Len(Layouts)) + 1]

\* how the application lays the page out again when it re-renders: as
\* before, in the opposite order, or without its first element
Variants == {"same", "swap", "short"}

Reverse(s) == [k \in 1..Len(s) |-> s[Len(s) + 1 - k]]

Arrange(layout, variant) ==
    IF variant = "swap" THEN Reverse(layout)
    ELSE IF variant = "short" THEN Tail(layout)
    ELSE layout

\* the node tree of page p in language l: each node shows its text in l and
\* has the structural path tag[index among the siblings of the same tag]
Render(p, l, variant) ==
    LET s == Arrange(PageLayout(p), variant) IN
    [k \in 1..Len(s) |->
        [eid |-> s[k].eid, tag |-> s[k].tag, id |-> s[k].id, cls |-> s[k].cls,
         attrs |-> s[k].attrs, text |-> s[k].text[l],
         path |-> <<"path", s[k].tag,
                    Cardinality({j \in 1..k : s[j].tag = s[k].tag})>>]]

-----------------------------------------------------------------------------
(* Locating and reading elements *)

\* get_element_xpath: the id when the node has one, else the structural path
get_element_xpath(n) == IF n.id # NoId THEN <<"id", n.id>> ELSE n.path

\* the tags of translatable_elements_xpaths that the pages use, in list order
translatable_elements_xpaths == <<"h1", "label", "button", "span">>

RECURSIVE FindElements(_, _)
FindElements(xpaths, d) ==
    IF xpaths = <<>> THEN <<>>
    ELSE LET Keep(n) == n.tag = Head(xpaths)
         IN SelectSeq(d, Keep) \o FindElements(Tail(xpaths), d)

\* get_page_elements: one find_elements per xpath, concatenated, then the
\* elements whose stripped text is empty are dropped
get_page_elements(d) ==
    LET Keep(e) == Strip(e.text) # <<>>
    IN SelectSeq(FindElements(translatable_elements_xpaths, d), Keep)

\* find_element_safe(by, value): the first of the nodes found by the locator
\* (found = their positions) as a one-element sequence, or <<>> for the None
\* returned after the timeout
FirstNode(d, found) ==
    IF found # {}
    THEN <<d[CHOOSE k \in found : \A j \in found : k <= j]>>
    ELSE <<>>

find_element_safe(d, by, value) ==
    IF by = "id" THEN FirstNode(d, {k \in 1..Len(d) : d[k].id = value})
    ELSE IF by = "xpath"
         THEN FirstNode(d, {k \in 1..Len(d) :
                              IF value[1] = "id" THEN d[k].id = value[2]
                              ELSE d[k].path = value})
    ELSE FirstNode(d, {k \in 1..Len(d) : d[k].cls = value})

NoKey == "<None>"

Truthy(k) == k # NoKey /\ k # ""

\* extract_translation_key: the first non-empty key attribute, else the
\* suffix of the first class i18n-* / trans-*, else the suffix of an id
\* trans.* / i18n.*, else None
FirstAttr(n) ==
    IF \E k \in 1..Len(KeyAttrs) : n.attrs[KeyAttrs[k]] # ""
    THEN n.attrs[KeyAttrs[CHOOSE k \in 1..Len(KeyAttrs) :
                    /\ n.attrs[KeyAttrs[k]] # ""
                    /\ \A j \in 1..(k - 1) : n.attrs[KeyAttrs[j]] = ""]]
    ELSE NoKey

FirstKeyClass(n) ==
    LET IsKey(c) == c.pre \in {"i18n-", "trans-"} IN
    IF \E k \in 1..Len(n.cls) : IsKey(n.cls[k])
    THEN (SelectSeq(n.cls, IsKey))[1].rest
    ELSE NoKey

\* the id convention looked at before the class convention
extract_translation_key_IdFirst(n) ==
    IF FirstAttr(n) # NoKey THEN FirstAttr(n)
    ELSE IF n.id # NoId /\ n.id.pre \in {"trans.", "i18n."} THEN n.id.rest
    ELSE IF FirstKeyClass(n) # NoKey THEN FirstKeyClass(n)
    ELSE NoKey

extract_translation_key(n) ==
    IF FirstAttr(n) # NoKey THEN FirstAttr(n)
    ELSE IF FirstKeyClass(n) # NoKey THEN FirstKeyClass(n)
    ELSE IF n.id # NoId /\ n.id.pre \in {"trans.", "i18n."} THEN n.id.rest
    ELSE NoKey

-----------------------------------------------------------------------------
(* self.results *)

InitialResults ==
    [total_elements |-> 0,
     en_matched |-> 0, kh_matched |-> 0, cn_matched |-> 0,
     en_mismatched |-> 0, kh_mismatched |-> 0, cn_mismatched |-> 0,
     mismatches |-> <<>>]

\* f"{lang_code}_matched", f"{lang_code}_mismatched"
MatchedField(l) ==
    CASE l = "en" -> "en_matched" [] l = "kh" -> "kh_matched" [] l = "cn" -> "cn_matched"

MismatchedField(l) ==
    CASE l = "en" -> "en_mismatched" [] l = "kh" -> "kh_mismatched"
      [] l = "cn" -> "cn_mismatched"

lang_name(l) == CASE l = "en" -> "English" [] l = "kh" -> "Khmer" [] l = "cn" -> "Chinese"

NotFound == <<"Not found in translations">>

\* check_translation(element_text, language): (is_matched, expected_text);
\* raised is set when expected_text.lower() is applied to a NaN cell
check_translation(df, element_text, language) ==
    LET clean_text == Strip(element_text)
        en_matches == MatchesByEN(df, clean_text)
        InKeys(r) == \E k \in 1..Len(en_matches) : en_matches[k].Key = r.Key
        InLang(r) == StrLowerEq(ConfirmColumn(r, language), clean_text)
        matches == IF language = "en" THEN en_matches
                   ELSE IF en_matches # <<>> THEN SelectSeq(df, InKeys)
                   ELSE SelectSeq(df, InLang)
    IN IF matches = <<>>
       THEN [is_matched |-> FALSE, expected |-> None, raised |-> FALSE]
       ELSE LET expected_text == ConfirmColumn(matches[1], language) IN
            IF expected_text = NaN
            THEN [is_matched |-> FALSE, expected |-> expected_text, raised |-> TRUE]
            ELSE [is_matched |-> Lower(clean_text) = Lower(expected_text),
                  expected |-> expected_text, raised |-> FALSE]

\* one line of the log that concerns an element or a language of a page
LogLine(kind, l, pos) == [kind |-> kind, lang |-> l, pos |-> pos]

-----------------------------------------------------------------------------
(* Construction *)

NoneDf == [isNone |-> TRUE, rows |-> <<>>, others |-> 0]

\* pd.read_excel(self.excel_path)
DataFrame(f) == [isNone |-> FALSE, rows |-> f.rows, others |-> f.others]

\* len(df)
DfLen(df) == Len(df.rows) + df.others

\* run_test was called on the tester directly, not by run_test_on_browser:
\* there is no local driver, and no driver has been quit.  "aliased" tells
\* that self.driver is the driver object of run_test_on_browser; quits
\* counts the quit() calls on that object ("provided") and on the one that
\* setup() creates ("own").
NoSession ==
    [worker |-> FALSE, local |-> "none", aliased |-> FALSE,
     quits |-> [provided |-> 0, own |-> 0], entry |-> "none"]

\* run_parallel_tests has not been called
NoPool ==
    [browsers |-> <<>>, concurrency |-> 0, futures |-> <<>>, objects |-> <<>>,
     results |-> <<>>, returned |-> FALSE]

\* no call of a function wrapped by retry is in progress
NoWrapper ==
    [max_attempts |-> 0, delay |-> 0, backoff |-> 0, attempt |-> 0,
     current_delay |-> 0, outcomes |-> <<>>, slept |-> <<>>, result |-> <<>>]

NoElem ==
    [key |-> NoKey, en_text |-> <<>>, element_id |-> NoId,
     element_class |-> <<>>, element_xpath |-> <<>>]

\* a TranslationTester right after __init__, about to execute run_test
InitRun ==
    /\ pc = "setup"
    /\ caller = "run_test"
    /\ driver = "none"
    \* run_test never measures the catalog: a short sheet stands for all
    /\ excel_path \in {f \in ExcelFiles : f.others = 0}
    /\ translations_df = NoneDf
    /\ shown = 0
    /\ dom = <<>>

\* a TranslationTester whose setup() and login() have succeeded, driven by a
\* client that calls its public methods
InitClient ==
    /\ pc = "idle"
    /\ caller = "client"
    /\ driver = "open"
    /\ excel_path \in {f \in ExcelFiles : required_columns \subseteq f.columns}
    /\ translations_df = DataFrame(excel_path)
    /\ shown = 1
    /\ dom = Render(1, "en", "same")

Init ==
    /\ InitRun \/ InitClient
    /\ results = InitialResults
    /\ current_page = 0
    /\ ret = "running"
    /\ report_file = "None"
    /\ page = 0
    /\ uiLang = "en"
    /\ change_ok = TRUE
    /\ elements = <<>>
    /\ english_elements = <<>>
    /\ new_elements = <<>>
    /\ lang = "kh"
    /\ i = 0
    /\ elem = NoElem
    /\ log = <<>>
    /\ calls = 0
    /\ faults = 0
    /\ translation_lookup = <<>>
    /\ switched = FALSE
    /\ wrapper = NoWrapper
    /\ session = NoSession
    /\ pool = NoPool

-----------------------------------------------------------------------------
(* Collaborators: language switch and navigation *)

\* change_language(language): True after the language option was clicked and
\* the page re-rendered in that language; False (nothing switched) when the
\* selector or the option could not be clicked
change_language(language) ==
    \E ok \in BOOLEAN, v \in Variants :
        /\ change_ok' = ok
        /\ IF ok
           THEN /\ uiLang' = language
                /\ dom' = Render(shown, language, v)
                /\ switched' = TRUE
           ELSE /\ v = "same"
                /\ UNCHANGED <<uiLang, dom, switched>>
        /\ faults' = faults + (IF ok THEN 0 ELSE 1) + (IF v = "same" THEN 0 ELSE 1)
        /\ faults' <= MaxFaults

\* a step in which the environment fails (failed) or behaves
Fault(failed) ==
    /\ faults' = faults + (IF failed THEN 1 ELSE 0)
    /\ faults' <= MaxFaults

\* navigate_to_page(menu_path): sets current_page first, then clicks through
\* the menu; on failure the browser stays on the page it showed
navigate_to_page(p, ok) ==
    /\ current_page' = p
    /\ Fault(~ok)
    /\ IF ok
       THEN /\ shown' = p
            /\ dom' = Render(p, uiLang, "same")
       ELSE UNCHANGED <<shown, dom>>

-----------------------------------------------------------------------------
(* run_test *)

\* setup(): creates the driver and calls load_translations, which reads the
\* sheet into self.translations_df and then raises if a required column is
\* not among its columns; run_test returns False when setup() does
Setup ==
    /\ pc = "setup"
    /\ driver' = "open"
    /\ session' = [session EXCEPT !.aliased = FALSE]
    /\ Fault(FALSE)
    /\ translations_df' = DataFrame(excel_path)
    /\ IF required_columns \subseteq excel_path.columns
       THEN /\ pc' = "login"
            /\ log' = <<>>
            /\ UNCHANGED ret
       ELSE /\ pc' = "finally"
            /\ log' = <<LogLine("load_failed", "en", 0)>>
            /\ ret' = "False"
    /\ UNCHANGED <<pool, wrapper, excel_path, translation_lookup, switched,
                   caller, results, current_page, shown, report_file, page,
                   uiLang, dom, change_ok, elements, english_elements,
                   new_elements, lang, i, elem, calls>>

\* setup() when webdriver.Chrome(...) raises: self.driver stays what it was,
\* setup() returns False and so does run_test
SetupDriverFails ==
    /\ pc = "setup"
    /\ Fault(TRUE)
    /\ pc' = "finally"
    /\ ret' = "False"
    /\ log' = <<LogLine("setup_failed", "en", 0)>>
    /\ UNCHANGED <<pool, session, wrapper, excel_path, translation_lookup, switched,
                   driver, translations_df,
                   caller, results, current_page, shown, report_file, page,
                   uiLang, dom, change_ok, elements, english_elements,
                   new_elements, lang, i, elem, calls>>

\* login(): on success the dashboard is displayed
Login ==
    /\ pc = "login"
    /\ log' = <<>>
    /\ Fault(FALSE)
    /\ \E ok \in BOOLEAN :
         IF ok
         THEN /\ pc' = "pages"
              /\ page' = 1
              /\ shown' = 1
              /\ dom' = Render(1, "en", "same")
              /\ UNCHANGED ret
         ELSE /\ pc' = "finally"
              /\ ret' = "False"
              /\ UNCHANGED <<page, shown, dom>>
    /\ UNCHANGED <<pool, session, wrapper, excel_path, translation_lookup, switched,
                   caller, driver, translations_df, results, current_page,
                   report_file, uiLang, change_ok, elements,
                   english_elements, new_elements, lang, i, elem, calls>>

\* a loop that leaves at the first path it cannot navigate to
Navigate_AbortOnFailure ==
    /\ pc = "pages"
    /\ page <= MaxPages
    /\ log' = <<>>
    /\ \E ok \in BOOLEAN :
         /\ navigate_to_page(page, ok)
         /\ IF ok THEN pc' = "en_change" /\ UNCHANGED page
                  ELSE pc' = "report" /\ UNCHANGED page
    /\ UNCHANGED <<pool, session, wrapper, excel_path, translation_lookup, switched,
                   caller, driver, translations_df, results, ret,
                   report_file, uiLang, change_ok, elements,
                   english_elements, new_elements, lang, i, elem, calls>>

\* for path in navigation_paths: if self.navigate_to_page(path): ...
Navigate ==
    /\ pc = "pages"
    /\ page <= MaxPages
    /\ log' = <<>>
    /\ \E ok \in BOOLEAN :
         /\ navigate_to_page(page, ok)
         /\ IF ok THEN pc' = "en_change" /\ UNCHANGED page
                  ELSE page' = page + 1 /\ UNCHANGED pc
    /\ UNCHANGED <<pool, session, wrapper, excel_path, translation_lookup, switched,
                   caller, driver, translations_df, results, ret,
                   report_file, uiLang, change_ok, elements,
                   english_elements, new_elements, lang, i, elem, calls>>

PagesDone ==
    /\ pc = "pages"
    /\ page > MaxPages
    /\ pc' = "report"
    /\ log' = <<>>
    /\ Fault(FALSE)
    /\ UNCHANGED <<pool, session, wrapper, excel_path, translation_lookup, switched,
                   caller, driver, translations_df, results, current_page,
                   shown, ret, report_file, page, uiLang, dom, change_ok,
                   elements, english_elements, new_elements, lang, i, elem,
                   calls>>

\* the keys of the dict self.driver.capabilities that the report names
capabilities == {"browserName", "browserVersion", "platformName"}

\* the keys str.format looks up for the fields {self.driver.capabilities[...]}
\* of the template's last literal: the text between the brackets is taken as
\* it stands, quotes included
format_keys == {"'browserName'", "'browserVersion'", "'platformName'"}

\* generate_report(): the summary divides the matches of each language by
\* its number of comparisons (ZeroDivisionError when there were none), then
\* .format(self=self) looks the capabilities up (KeyError for a key the dict
\* does not have); any exception makes it return None, else the file is
\* written and its name returned
generate_report(r) ==
    IF \/ r.en_matched + r.en_mismatched = 0
       \/ r.kh_matched + r.kh_mismatched = 0
       \/ r.cn_matched + r.cn_mismatched = 0
    THEN "None"
    ELSE IF ~(format_keys \subseteq capabilities)
    THEN "None"
    ELSE "written"

GenerateReport ==
    /\ pc = "report"
    /\ report_file' = generate_report(results)
    /\ pc' = "final_change"
    /\ log' = <<>>
    /\ Fault(FALSE)
    /\ UNCHANGED <<pool, session, wrapper, excel_path, translation_lookup, switched,
                   caller, driver, translations_df, results, current_page,
                   shown, ret, page, uiLang, dom, change_ok, elements,
                   english_elements, new_elements, lang, i, elem, calls>>

\* self.change_language('en'); return True
FinalChange ==
    /\ pc = "final_change"
    /\ change_language("en")
    /\ ret' = "True"
    /\ pc' = "finally"
    /\ log' = <<>>
    /\ UNCHANGED <<pool, session, wrapper, excel_path, translation_lookup,
                   caller, driver, translations_df, results, current_page,
                   shown, report_file, page, elements, english_elements,
                   new_elements, lang, i, elem, calls>>

\* finally: if self.driver: self.driver.quit()
Finally ==
    /\ pc = "finally"
    /\ driver' = IF driver = "none" THEN "none" ELSE "quit"
    /\ session' = IF driver = "none" THEN session
                  ELSE [session EXCEPT
                          !.quits[IF session.aliased THEN "provided" ELSE "own"] = @ + 1]
    /\ pc' = IF session.worker THEN "worker_return" ELSE "done"
    /\ log' = <<>>
    /\ Fault(FALSE)
    /\ UNCHANGED <<pool, wrapper, excel_path, translation_lookup, switched,
                   caller, translations_df, results, current_page, shown,
                   ret, report_file, page, uiLang, dom, change_ok, elements,
                   english_elements, new_elements, lang, i, elem, calls>>

-----------------------------------------------------------------------------
(* check_page_translations *)

\* where control goes when check_page_translations returns or raises:
\* run_test moves on to the next path, a client gets control back; the
\* locals of the call are gone
ReturnFromPage ==
    /\ IF caller = "run_test"
       THEN pc' = "pages" /\ page' = page + 1
       ELSE pc' = "idle" /\ UNCHANGED page
    /\ elements' = <<>>
    /\ english_elements' = <<>>
    /\ new_elements' = <<>>
    /\ i' = 0
    /\ lang' = "kh"

\* self.change_language('en') at the start of the page check
EnChange ==
    /\ pc = "en_change"
    /\ change_language("en")
    /\ pc' = "en_snapshot"
    /\ log' = <<>>
    /\ UNCHANGED <<pool, session, wrapper, excel_path, translation_lookup,
                   caller, driver, translations_df, results, current_page,
                   shown, ret, report_file, page, elements,
                   english_elements, new_elements, lang, i, elem, calls>>

\* elements = self.get_page_elements(); a node that goes stale while the
\* texts are filtered raises out of check_page_translations: run_test logs
\* the error of the page, a client gets the exception
EnSnapshot ==
    /\ pc = "en_snapshot"
    /\ \E stale \in BOOLEAN :
         /\ Fault(stale)
         /\ IF stale
            THEN /\ dom # <<>>
                 /\ log' = IF caller = "run_test"
                           THEN <<LogLine("page_error", "en", 0)>>
                           ELSE <<>>
                 /\ ReturnFromPage
                 /\ UNCHANGED switched
            ELSE /\ elements' = get_page_elements(dom)
                 /\ switched' = FALSE
                 /\ english_elements' = <<>>
                 /\ i' = 1
                 /\ pc' = "en_loop"
                 /\ log' = <<>>
                 /\ UNCHANGED <<page, new_elements, lang>>
    /\ UNCHANGED <<pool, session, wrapper, excel_path, translation_lookup,
                   caller, driver, translations_df, results, current_page,
                   shown, ret, report_file, uiLang, dom, change_ok, elem,
                   calls>>

\* the mismatch record of the English phase
EnglishMismatch(element, element_text, expected_text) ==
    [page |-> current_page,
     element |-> get_element_xpath(element),
     language |-> "English",
     actual |-> element_text,
     expected |-> IF expected_text = None \/ expected_text = <<>>
                  THEN NotFound ELSE expected_text]

\* an English loop that forgets self.results["en_matched"] += 1
EnLoop_MatchNotCounted ==
    /\ pc = "en_loop"
    /\ i <= Len(elements)
    /\ \E outcome \in {"ok", "stale", "stale_xpath"} :
         LET element == elements[i]
             element_text == Strip(element.text)
             r == check_translation(translations_df.rows, element_text, "en")
             counted == IF r.is_matched
                        THEN [results EXCEPT !.total_elements = @ + 1]
                        ELSE [results EXCEPT !.total_elements = @ + 1,
                                             !.en_mismatched = @ + 1]
         IN /\ Fault(outcome # "ok")
            /\ IF outcome = "stale"
               THEN /\ log' = <<LogLine("stale", "en", i)>>
                    /\ UNCHANGED <<results, english_elements>>
               ELSE IF element_text = <<>>
               THEN /\ outcome = "ok"
                    /\ log' = <<>>
                    /\ UNCHANGED <<results, english_elements>>
               ELSE IF translations_df.isNone
               THEN /\ outcome = "ok"
                    /\ english_elements' =
                           Append(english_elements,
                                  [index |-> i, text |-> element_text,
                                   xpath |-> get_element_xpath(element)])
                    /\ log' = <<LogLine("element_error", "en", i)>>
                    /\ UNCHANGED results
               ELSE /\ english_elements' =
                           Append(english_elements,
                                  [index |-> i, text |-> element_text,
                                   xpath |-> get_element_xpath(element)])
                    /\ IF r.is_matched
                       THEN /\ outcome = "ok"
                            /\ results' = counted
                            /\ log' = <<>>
                       ELSE IF outcome = "stale_xpath"
                       THEN /\ results' = counted
                            /\ log' = <<LogLine("stale", "en", i)>>
                       ELSE /\ results' = [counted EXCEPT !.mismatches =
                                   Append(@, EnglishMismatch(element, element_text,
                                                             r.expected))]
                            /\ log' = <<>>
    /\ i' = i + 1
    /\ UNCHANGED <<pool, session, wrapper, excel_path, translation_lookup, switched,
                   pc, caller, driver, translations_df, current_page, shown,
                   ret, report_file, page, uiLang, dom, change_ok, elements,
                   new_elements, lang, elem, calls>>

\* one iteration of "for i, element in enumerate(elements)".  The element may
\* go stale before it is stored ("stale") or when its xpath is computed for
\* the mismatch record ("stale_xpath").  With self.translations_df = None the
\* lookup of check_translation raises TypeError after the element was stored.
EnLoop ==
    /\ pc = "en_loop"
    /\ i <= Len(elements)
    /\ \E outcome \in {"ok", "stale", "stale_xpath"} :
         LET element == elements[i]
             element_text == Strip(element.text)
             r == check_translation(translations_df.rows, element_text, "en")
             counted == [results EXCEPT
                           !.total_elements = @ + 1,
                           ![IF r.is_matched THEN "en_matched" ELSE "en_mismatched"] = @ + 1]
         IN /\ Fault(outcome # "ok")
            /\ IF outcome = "stale"
               THEN /\ log' = <<LogLine("stale", "en", i)>>
                    /\ UNCHANGED <<results, english_elements>>
               ELSE IF element_text = <<>>
               THEN /\ outcome = "ok"
                    /\ log' = <<>>
                    /\ UNCHANGED <<results, english_elements>>
               ELSE IF translations_df.isNone
               THEN /\ outcome = "ok"
                    /\ english_elements' =
                           Append(english_elements,
                                  [index |-> i, text |-> element_text,
                                   xpath |-> get_element_xpath(element)])
                    /\ log' = <<LogLine("element_error", "en", i)>>
                    /\ UNCHANGED results
               ELSE /\ english_elements' =
                           Append(english_elements,
                                  [index |-> i, text |-> element_text,
                                   xpath |-> get_element_xpath(element)])
                    /\ IF r.is_matched
                       THEN /\ outcome = "ok"
                            /\ results' = counted
                            /\ log' = <<>>
                       ELSE IF outcome = "stale_xpath"
                       THEN /\ results' = counted
                            /\ log' = <<LogLine("stale", "en", i)>>
                       ELSE /\ results' = [counted EXCEPT !.mismatches =
                                   Append(@, EnglishMismatch(element, element_text,
                                                             r.expected))]
                            /\ log' = <<>>
    /\ i' = i + 1
    /\ UNCHANGED <<pool, session, wrapper, excel_path, translation_lookup, switched,
                   pc, caller, driver, translations_df, current_page, shown,
                   ret, report_file, page, uiLang, dom, change_ok, elements,
                   new_elements, lang, elem, calls>>

\* the English loop is over: for lang_code, lang_name in [('kh', ...), ('cn', ...)]
EnLoopDone ==
    /\ pc = "en_loop"
    /\ i > Len(elements)
    /\ lang' = "kh"
    /\ i' = 0
    /\ pc' = "lang_change"
    /\ log' = <<>>
    /\ Fault(FALSE)
    /\ UNCHANGED <<pool, session, wrapper, excel_path, translation_lookup, switched,
                   caller, driver, translations_df, results, current_page,
                   shown, ret, report_file, page, uiLang, dom, change_ok,
                   elements, english_elements, new_elements, elem, calls>>

\* self.change_language(lang_code); the returned value is not looked at
LangChange ==
    /\ pc = "lang_change"
    /\ change_language(lang)
    /\ pc' = "lang_snapshot"
    /\ log' = <<>>
    /\ UNCHANGED <<pool, session, wrapper, excel_path, translation_lookup,
                   caller, driver, translations_df, results, current_page,
                   shown, ret, report_file, page, elements,
                   english_elements, new_elements, lang, i, elem, calls>>

\* a loop that takes the Chinese snapshot without switching the language
NextLang_NoSwitch ==
    IF lang = "kh"
    THEN /\ lang' = "cn"
         /\ pc' = "lang_snapshot"
         /\ new_elements' = <<>>
         /\ i' = 0
         /\ UNCHANGED <<page, elements, english_elements>>
    ELSE ReturnFromPage

\* the next language of the loop, or the end of check_page_translations
NextLang ==
    IF lang = "kh"
    THEN /\ lang' = "cn"
         /\ pc' = "lang_change"
         /\ new_elements' = <<>>
         /\ i' = 0
         /\ UNCHANGED <<page, elements, english_elements>>
    ELSE ReturnFromPage

\* new_elements = self.get_page_elements(), and the warning when the sizes
\* differ; an exception is caught by the language's try block
LangSnapshot ==
    /\ pc = "lang_snapshot"
    /\ \E stale \in BOOLEAN :
         /\ Fault(stale)
         /\ IF stale
            THEN /\ dom # <<>>
                 /\ log' = <<LogLine("language_error", lang, 0)>>
                 /\ NextLang
                 /\ UNCHANGED switched
            ELSE /\ new_elements' = get_page_elements(dom)
                 /\ switched' = FALSE
                 /\ log' = IF Len(get_page_elements(dom)) # Len(elements)
                           THEN <<LogLine("size_differs", lang, 0)>>
                           ELSE <<>>
                 /\ i' = 1
                 /\ pc' = "lang_loop"
                 /\ UNCHANGED <<lang, page, elements, english_elements>>
    /\ UNCHANGED <<pool, session, wrapper, excel_path, translation_lookup,
                   caller, driver, translations_df, results, current_page,
                   shown, ret, report_file, uiLang, dom, change_ok, elem,
                   calls>>

\* the mismatch record of the Khmer and Chinese phases
LangMismatch(element, element_text, expected, en_text) ==
    [page |-> current_page,
     element |-> get_element_xpath(element),
     language |-> lang_name(lang),
     actual |-> element_text,
     expected |-> expected,
     english_reference |-> en_text]

\* the text expected in lang_code for the English text en_text: the row is
\* found by the English text, its key looked up again, and the confirmed
\* column of the first row with that key is taken
expected_translation(df, en_text, lang_code) ==
    LET en_matches == MatchesByEN(df, en_text)
        key == en_matches[1].Key
    IN ConfirmColumn(MatchesByKey(df, key)[1], lang_code)

\* one iteration of "for i, english_key in enumerate(english_elements)"
LangLoop ==
    /\ pc = "lang_loop"
    /\ i <= Len(english_elements)
    /\ \E outcome \in {"ok", "stale", "stale_xpath"} :
         /\ Fault(outcome # "ok")
         /\ IF i <= Len(new_elements)
            THEN LET element == new_elements[i]
                     element_text == Strip(element.text)
                     en_text == english_elements[i].text
                     df == translations_df.rows
                     expected == expected_translation(df, en_text, lang)
                 IN IF outcome = "stale"
                    THEN /\ log' = <<LogLine("stale", lang, i)>>
                         /\ UNCHANGED results
                    ELSE IF element_text = <<>>
                    THEN /\ outcome = "ok"
                         /\ log' = <<>>
                         /\ UNCHANGED results
                    ELSE IF translations_df.isNone
                    THEN /\ outcome = "ok"
                         /\ log' = <<LogLine("element_error", lang, i)>>
                         /\ UNCHANGED results
                    ELSE IF MatchesByEN(df, en_text) = <<>>
                    THEN /\ outcome = "ok"
                         /\ log' = <<LogLine("no_english_reference", lang, i)>>
                         /\ UNCHANGED results
                    ELSE IF expected = NaN
                    THEN /\ outcome = "ok"
                         /\ log' = <<LogLine("element_error", lang, i)>>
                         /\ UNCHANGED results
                    ELSE IF Lower(element_text) = Lower(expected)
                    THEN /\ outcome = "ok"
                         /\ results' = [results EXCEPT ![MatchedField(lang)] = @ + 1]
                         /\ log' = <<>>
                    ELSE IF outcome = "stale_xpath"
                    THEN /\ results' = [results EXCEPT ![MismatchedField(lang)] = @ + 1]
                         /\ log' = <<LogLine("stale", lang, i)>>
                    ELSE /\ results' = [results EXCEPT
                               ![MismatchedField(lang)] = @ + 1,
                               !.mismatches = Append(@,
                                   LangMismatch(element, element_text, expected, en_text))]
                         /\ log' = <<>>
            ELSE /\ outcome = "ok"
                 /\ log' = <<>>
                 /\ UNCHANGED results
    /\ i' = i + 1
    /\ UNCHANGED <<pool, session, wrapper, excel_path, translation_lookup, switched,
                   pc, caller, driver, translations_df, current_page, shown,
                   ret, report_file, page, uiLang, dom, change_ok, elements,
                   english_elements, new_elements, lang, elem, calls>>

LangLoopDone ==
    /\ pc = "lang_loop"
    /\ i > Len(english_elements)
    /\ NextLang
    /\ log' = <<>>
    /\ Fault(FALSE)
    /\ UNCHANGED <<pool, session, wrapper, excel_path, translation_lookup, switched,
                   caller, driver, translations_df, results, current_page,
                   shown, ret, report_file, uiLang, dom, change_ok, elem,
                   calls>>

-----------------------------------------------------------------------------
(* Operations a client invokes on a tester that is set up and logged in *)

ClientNavigate ==
    /\ pc = "idle"
    /\ calls < MaxCalls
    /\ calls' = calls + 1
    /\ log' = <<>>
    /\ \E p \in 1..MaxPages, ok \in BOOLEAN : navigate_to_page(p, ok)
    /\ UNCHANGED <<pool, session, wrapper, excel_path, translation_lookup, switched,
                   pc, caller, driver, translations_df, results, ret,
                   report_file, page, uiLang, change_ok, elements,
                   english_elements, new_elements, lang, i, elem>>

ClientCheckPage ==
    /\ pc = "idle"
    /\ calls < MaxCalls
    /\ calls' = calls + 1
    /\ pc' = "en_change"
    /\ log' = <<>>
    /\ Fault(FALSE)
    /\ UNCHANGED <<pool, session, wrapper, excel_path, translation_lookup, switched,
                   caller, driver, translations_df, results, current_page,
                   shown, ret, report_file, page, uiLang, dom, change_ok,
                   elements, english_elements, new_elements, lang, i, elem>>

\* the literal of "len(self.translations_df) > 5000"
LookupThreshold == 5000

\* the literal of "max_mismatches = 1000", scaled to the number of mismatch
\* records a run over the modelled pages can produce
max_mismatches == 2

\* for _, row in self.translations_df.iterrows():
\*     self.translation_lookup[key] = {'en': ..., 'kh': ..., 'cn': ...}
\* a key met again keeps its place in the dict and takes the later row's values
RECURSIVE Project(_, _)
Project(rows, lookup) ==
    IF rows = <<>> THEN lookup
    ELSE LET row == Head(rows)
             entry == [key |-> row.Key, en |-> row.OriginalEN,
                       kh |-> row.KHConfirm, cn |-> row.CNConfirm]
             at == {k \in 1..Len(lookup) : lookup[k].key = row.Key}
         IN Project(Tail(rows),
                    IF at = {} THEN Append(lookup, entry)
                    ELSE [k \in 1..Len(lookup) |->
                             IF k \in at THEN entry ELSE lookup[k]])

\* optimize_memory_usage(self): a catalog of more than 5000 rows is projected
\* into self.translation_lookup and self.translations_df is cleared; the
\* mismatch list is cut to its first max_mismatches records.  When
\* self.translations_df is None already, len() raises and the except clause
\* ends the call before the list is looked at.
OptimizeMemoryUsage ==
    /\ pc = "idle"
    /\ calls < MaxCalls
    /\ calls' = calls + 1
    /\ Fault(FALSE)
    /\ IF translations_df.isNone
       THEN /\ log' = <<LogLine("optimization_failed", "en", 0)>>
            /\ UNCHANGED <<translations_df, translation_lookup, results>>
       ELSE /\ IF DfLen(translations_df) > LookupThreshold
               THEN /\ translation_lookup' = Project(translations_df.rows, <<>>)
                    /\ translations_df' = NoneDf
               ELSE UNCHANGED <<translations_df, translation_lookup>>
            /\ IF Len(results.mismatches) > max_mismatches
               THEN /\ results' = [results EXCEPT !.mismatches =
                                       SubSeq(@, 1, max_mismatches)]
                    /\ log' = <<LogLine("limiting_mismatches", "en", 0)>>
               ELSE /\ log' = <<>>
                    /\ UNCHANGED results
    /\ UNCHANGED <<pool, session, wrapper, pc, excel_path, switched, caller, driver, current_page, shown, ret,
                   report_file, page, uiLang, dom, change_ok, elements,
                   english_elements, new_elements, lang, i, elem>>

-----------------------------------------------------------------------------
(* scan_dynamic_content and check_element_translations *)

\* the handling of the expandable section ends, normally or by an exception
EndOfSection ==
    /\ pc' = "idle"
    /\ new_elements' = <<>>
    /\ i' = 0
    /\ elem' = NoElem
    /\ lang' = "kh"

\* scan_dynamic_content: the expandable section of the page is opened and
\* new_elements = self.get_page_elements() is taken
ScanDynamicContent ==
    /\ pc = "idle"
    /\ calls < MaxCalls
    /\ calls' = calls + 1
    /\ \E stale \in BOOLEAN :
         /\ Fault(stale)
         /\ IF stale
            THEN /\ dom # <<>>
                 /\ log' = <<LogLine("expandable_error", "en", 0)>>
                 /\ UNCHANGED <<pc, new_elements, i, switched>>
            ELSE /\ new_elements' = get_page_elements(dom)
                 /\ switched' = FALSE
                 /\ i' = 1
                 /\ pc' = "scan_loop"
                 /\ log' = <<>>
    /\ UNCHANGED <<pool, session, wrapper, excel_path, translation_lookup,
                   caller, driver, translations_df, results, current_page,
                   shown, ret, report_file, page, uiLang, dom, change_ok,
                   elements, english_elements, lang, elem>>

\* the node a handle of an earlier snapshot refers to, if the page still has it
LiveNode(d, handle) ==
    FirstNode(d, {k \in 1..Len(d) : d[k].eid = handle.eid})

\* the English comparison of check_element_translations: by the key of the
\* element when the catalog has it, else by the English text (which then
\* supplies the key for the other languages)
english_result(df, key, en_text) ==
    IF Truthy(key) /\ KeyInCatalog(df, key)
    THEN LET translation_row == MatchesByKey(df, key)[1] IN
         [expected |-> translation_row.OriginalEN,
          matched |-> IF translation_row.OriginalEN = NaN THEN FALSE
                      ELSE Lower(en_text) = Lower(translation_row.OriginalEN),
          raised |-> translation_row.OriginalEN = NaN,
          key |-> key]
    ELSE LET matches == MatchesByEN(df, en_text) IN
         IF matches # <<>>
         THEN [expected |-> matches[1].OriginalEN, matched |-> TRUE,
               raised |-> FALSE, key |-> matches[1].Key]
         ELSE [expected |-> None, matched |-> FALSE, raised |-> FALSE, key |-> key]

\* check_element_translations(new_element), up to the English statistics.
\* The handle was obtained by the snapshot of scan_dynamic_content: reading
\* it gives the node's present text ("live"), or fails because the node was
\* replaced, either when its xpath is computed ("stale_xpath", the exception
\* ends the section) or when its text is read ("stale_text", returns None).
CheckElementEnglish ==
    /\ pc = "scan_loop"
    /\ i <= Len(new_elements)
    /\ \E outcome \in {"live", "stale_xpath", "stale_text"} :
         LET live == LiveNode(dom, new_elements[i])
             element == live[1]
             key == extract_translation_key(element)
             en_text == Strip(element.text)
             er == english_result(translations_df.rows, key, en_text)
         IN /\ IF outcome = "live" THEN live # <<>> /\ Fault(FALSE) ELSE Fault(live # <<>>)
            /\ IF outcome = "stale_xpath"
               THEN /\ log' = <<LogLine("expandable_error", "en", i)>>
                    /\ EndOfSection
                    /\ UNCHANGED results
               ELSE IF outcome = "stale_text" \/ en_text = <<>>
               THEN /\ i' = i + 1
                    /\ log' = <<>>
                    /\ UNCHANGED <<results, elem, lang, pc, new_elements>>
               ELSE IF translations_df.isNone \/ er.raised
               THEN /\ log' = <<LogLine("expandable_error", "en", i)>>
                    /\ EndOfSection
                    /\ UNCHANGED results
               ELSE /\ results' = [results EXCEPT
                           ![IF er.matched THEN "en_matched" ELSE "en_mismatched"] = @ + 1]
                    /\ log' = <<>>
                    /\ UNCHANGED new_elements
                    /\ IF Truthy(er.key) \/ er.matched
                       THEN /\ elem' = [key |-> er.key, en_text |-> en_text,
                                        element_id |-> element.id,
                                        element_class |-> element.cls,
                                        element_xpath |-> get_element_xpath(element)]
                            /\ lang' = "kh"
                            /\ pc' = "el_change"
                            /\ UNCHANGED i
                       ELSE /\ i' = i + 1
                            /\ UNCHANGED <<elem, lang, pc>>
    /\ UNCHANGED <<pool, session, wrapper, excel_path, translation_lookup, switched,
                   caller, driver, translations_df, current_page, shown,
                   ret, report_file, page, uiLang, dom, change_ok, elements,
                   english_elements, calls>>

\* self.change_language(lang_code) inside check_element_translations
ElementChange ==
    /\ pc = "el_change"
    /\ change_language(lang)
    /\ pc' = "el_find"
    /\ log' = <<>>
    /\ UNCHANGED <<pool, session, wrapper, excel_path, translation_lookup,
                   caller, driver, translations_df, results, current_page,
                   shown, ret, report_file, page, elements,
                   english_elements, new_elements, lang, i, elem, calls>>

\* "Try to find the same element after language change": by id, elif by
\* xpath, elif by class when there is more than one class, else None
lang_element(d, e) ==
    IF e.element_id # NoId THEN find_element_safe(d, "id", e.element_id)
    ELSE IF e.element_xpath # <<>> THEN find_element_safe(d, "xpath", e.element_xpath)
    ELSE IF e.element_class # <<>> /\ Len(e.element_class) > 1
         THEN find_element_safe(d, "class", e.element_class)
    ELSE <<>>

\* the rows the expected translation is taken from
element_matches(df, e) ==
    IF Truthy(e.key) THEN MatchesByKey(df, e.key) ELSE MatchesByEN(df, e.en_text)

\* the element is looked up again and compared in lang_code
CheckElementLang ==
    /\ pc = "el_find"
    /\ Fault(FALSE)
    /\ LET found == lang_element(dom, elem)
           lang_text == Strip(found[1].text)
           matches == element_matches(translations_df.rows, elem)
           expected_text == ConfirmColumn(matches[1], lang)
       IN IF found = <<>>
          THEN /\ log' = <<LogLine("not_found", lang, i)>>
               /\ UNCHANGED results
          ELSE IF matches = <<>>
          THEN /\ log' = <<>>
               /\ UNCHANGED results
          ELSE IF expected_text = NaN
          THEN /\ log' = <<LogLine("element_error", lang, i)>>
               /\ UNCHANGED results
          ELSE /\ results' = [results EXCEPT
                      ![IF Lower(lang_text) = Lower(expected_text)
                        THEN MatchedField(lang) ELSE MismatchedField(lang)] = @ + 1]
               /\ log' = <<>>
    /\ IF lang = "kh"
       THEN lang' = "cn" /\ pc' = "el_change"
       ELSE pc' = "el_back" /\ UNCHANGED lang
    /\ UNCHANGED <<pool, session, wrapper, excel_path, translation_lookup, switched,
                   caller, driver, translations_df, current_page, shown,
                   ret, report_file, page, uiLang, dom, change_ok, elements,
                   english_elements, new_elements, i, elem, calls>>

\* "Return to English for next element"
ElementBack ==
    /\ pc = "el_back"
    /\ change_language("en")
    /\ i' = i + 1
    /\ elem' = NoElem
    /\ lang' = "kh"
    /\ pc' = "scan_loop"
    /\ log' = <<>>
    /\ UNCHANGED <<pool, session, wrapper, excel_path, translation_lookup,
                   caller, driver, translations_df, results, current_page,
                   shown, ret, report_file, page, elements,
                   english_elements, new_elements, calls>>

ScanDone ==
    /\ pc = "scan_loop"
    /\ i > Len(new_elements)
    /\ EndOfSection
    /\ log' = <<>>
    /\ Fault(FALSE)
    /\ UNCHANGED <<pool, session, wrapper, excel_path, translation_lookup, switched,
                   caller, driver, translations_df, results, current_page,
                   shown, ret, report_file, page, uiLang, dom, change_ok,
                   elements, english_elements, calls>>

-----------------------------------------------------------------------------
(* extract_translation_key called on an element of any shape *)

\* the value each key attribute has on an element that carries it
AttrValue ==
    ( "data-translation-key" :> "ka" @@ "data-i18n" :> "kb" @@
      "data-key" :> "kc" @@ "i18n-key" :> "kd" )

\* class names: plain ones, ones that follow the i18n- / trans- convention,
\* and the bare prefix "i18n-"
ClassNames ==
    { [pre |-> "", rest |-> "btn"], [pre |-> "i18n-", rest |-> "ke"],
      [pre |-> "trans-", rest |-> "kf"], [pre |-> "i18n-", rest |-> ""] }

\* ids: none, a plain one, and ones that follow the trans. / i18n. convention
Ids ==
    { NoId, [pre |-> "", rest |-> "a"], [pre |-> "trans.", rest |-> "kg"],
      [pre |-> "i18n.", rest |-> "kh"] }

\* the elements extract_translation_key may be handed: any subset of the key
\* attributes, up to two classes, any of the ids
KeyElements ==
    { [eid |-> 1, tag |-> "span", id |-> d, cls |-> c,
       attrs |-> [a \in DOMAIN AttrValue |-> IF a \in on THEN AttrValue[a] ELSE ""],
       text |-> <<"C">>, path |-> <<"path", "span", 1>>] :
        on \in SUBSET (DOMAIN AttrValue),
        c \in {<<>>} \cup {<<x>> : x \in ClassNames}
               \cup {<<x, y>> : x \in ClassNames, y \in ClassNames},
        d \in Ids }

\* a tester whose browser shows one element, on which a client is about to
\* call extract_translation_key
InitKey ==
    /\ pc = "extract_key"
    /\ caller = "client"
    /\ driver = "open"
    /\ excel_path \in {f \in ExcelFiles : f.others = 0 /\ f.columns = SheetColumns}
    /\ translations_df = DataFrame(excel_path)
    /\ shown = 1
    /\ dom \in {<<n>> : n \in KeyElements}
    /\ results = InitialResults
    /\ current_page = 0
    /\ ret = "running"
    /\ report_file = "None"
    /\ page = 0
    /\ uiLang = "en"
    /\ change_ok = TRUE
    /\ elements = <<>>
    /\ english_elements = <<>>
    /\ new_elements = <<>>
    /\ lang = "kh"
    /\ i = 0
    /\ elem = NoElem
    /\ log = <<>>
    /\ calls = 0
    /\ faults = 0
    /\ translation_lookup = <<>>
    /\ switched = FALSE
    /\ wrapper = NoWrapper
    /\ session = NoSession
    /\ pool = NoPool

\* key = self.extract_translation_key(element); an exception of
\* get_attribute (the node went stale) is logged and None returned
ExtractTranslationKey ==
    /\ pc = "extract_key"
    /\ pc' = "key_extracted"
    /\ \E stale \in BOOLEAN :
         /\ Fault(stale)
         /\ IF stale
            THEN /\ elem' = [NoElem EXCEPT !.key = NoKey]
                 /\ log' = <<LogLine("key_error", "en", 1)>>
            ELSE /\ elem' = [NoElem EXCEPT !.key = extract_translation_key(dom[1])]
                 /\ log' = <<>>
    /\ UNCHANGED <<pool, session, wrapper, excel_path, translation_lookup, switched,
                   caller, driver, translations_df, results, current_page,
                   shown, ret, report_file, page, uiLang, dom, change_ok,
                   elements, english_elements, new_elements, lang, i, calls>>

KeySpec == InitKey /\ [][ExtractTranslationKey]_vars

-----------------------------------------------------------------------------
(* run_test_on_browser(browser, config) *)

\* run_test_on_browser is entered with a new TranslationTester to make
InitWorker ==
    /\ pc = "worker_start"
    /\ caller = "run_test"
    /\ driver = "none"
    /\ excel_path \in {f \in ExcelFiles : f.others = 0}
    /\ translations_df = NoneDf
    /\ shown = 0
    /\ dom = <<>>
    /\ results = InitialResults
    /\ current_page = 0
    /\ ret = "running"
    /\ report_file = "None"
    /\ page = 0
    /\ uiLang = "en"
    /\ change_ok = TRUE
    /\ elements = <<>>
    /\ english_elements = <<>>
    /\ new_elements = <<>>
    /\ lang = "kh"
    /\ i = 0
    /\ elem = NoElem
    /\ log = <<>>
    /\ calls = 0
    /\ faults = 0
    /\ translation_lookup = <<>>
    /\ switched = FALSE
    /\ wrapper = NoWrapper
    /\ session = [NoSession EXCEPT !.worker = TRUE]
    /\ pool = NoPool

\* driver = get_browser_driver(browser, ...); tester = TranslationTester(...);
\* tester.driver = driver; success = tester.run_test().  When
\* get_browser_driver raises, the except clause returns the error entry and
\* the finally clause finds no local driver.  With the TranslationTester of
\* src/tester.py, which has no run_test, the call raises AttributeError: the
\* except clause returns the error entry and the finally clause quits the
\* local driver.  Otherwise the call enters run_test.
WorkerOutcomes == {"driver_raises", "no_run_test", "run_test"}

WorkerStart ==
    /\ pc = "worker_start"
    /\ log' = <<>>
    /\ \E o \in WorkerOutcomes :
         /\ Fault(o = "driver_raises")
         /\ CASE o = "driver_raises" ->
                   /\ session' = [session EXCEPT !.entry = "error"]
                   /\ pc' = "done"
                   /\ UNCHANGED driver
              [] o = "no_run_test" ->
                   /\ session' = [session EXCEPT !.entry = "error", !.local = "quit",
                                                 !.aliased = TRUE,
                                                 !.quits.provided = @ + 1]
                   /\ driver' = "quit"
                   /\ pc' = "done"
              [] o = "run_test" ->
                   /\ session' = [session EXCEPT !.local = "open", !.aliased = TRUE]
                   /\ driver' = "open"
                   /\ pc' = "setup"
    /\ UNCHANGED <<pool, wrapper, excel_path, translation_lookup, switched,
                   caller, translations_df, results, current_page, shown,
                   ret, report_file, page, uiLang, dom, change_ok, elements,
                   english_elements, new_elements, lang, i, elem, calls>>

\* run_test has returned: the entry with tester.results is returned, and
\* the finally clause calls driver.quit() on the local driver
WorkerReturn ==
    /\ pc = "worker_return"
    /\ pc' = "done"
    /\ log' = <<>>
    /\ Fault(FALSE)
    /\ session' = [session EXCEPT !.entry = "results", !.local = "quit",
                                  !.quits.provided = @ + 1]
    /\ driver' = IF session.aliased THEN "quit" ELSE driver
    /\ UNCHANGED <<pool, wrapper, excel_path, translation_lookup, switched,
                   caller, translations_df, results, current_page, shown,
                   ret, report_file, page, uiLang, dom, change_ok, elements,
                   english_elements, new_elements, lang, i, elem, calls>>

-----------------------------------------------------------------------------
(* run_parallel_tests(config, concurrency) *)

\* config['browsers']: one browser, two, the same one twice, three
BrowserLists ==
    {<<"chrome">>, <<"chrome", "firefox">>, <<"chrome", "chrome">>,
     <<"chrome", "firefox", "edge">>}

\* the concurrency argument; 0 stands for None
Concurrencies == {0, 1, 2}

\* self.results of a new TranslationTester, reduced to the counters of one
\* language and the mismatch list
NewResults == [matched |-> 0, mismatched |-> 0, mismatches |-> <<>>]

\* a future of the executor: the state of its call of run_test_on_browser,
\* the counter value the worker has read and not yet written back, the
\* comparisons the worker has made itself, and whether as_completed has
\* yielded it
NewFuture ==
    [state |-> "pending", tmp |-> <<>>, own |-> [matched |-> 0, mismatched |-> 0],
     entry |-> "none", collected |-> FALSE]

\* the results object that worker w updates: TranslationTester(...) of
\* run_test_on_browser makes a new tester, whose __init__ makes a new dict
ResultsOwner_Shared(w) == 1

ResultsOwner(w) == w

\* the thread pool runs at most max_workers calls at a time
Running == {w \in DOMAIN pool.futures : pool.futures[w].state \in {"running", "loaded"}}

max_workers == IF pool.concurrency = 0 THEN Len(pool.browsers) ELSE pool.concurrency

InitPool ==
    /\ pc = "parallel"
    /\ caller = "client"
    /\ driver = "none"
    /\ excel_path = CHOOSE f \in ExcelFiles : f.others = 0 /\ f.columns = SheetColumns
    /\ translations_df = NoneDf
    /\ shown = 0
    /\ dom = <<>>
    /\ results = InitialResults
    /\ current_page = 0
    /\ ret = "running"
    /\ report_file = "None"
    /\ page = 0
    /\ uiLang = "en"
    /\ change_ok = TRUE
    /\ elements = <<>>
    /\ english_elements = <<>>
    /\ new_elements = <<>>
    /\ lang = "kh"
    /\ i = 0
    /\ elem = NoElem
    /\ log = <<>>
    /\ calls = 0
    /\ faults = 0
    /\ translation_lookup = <<>>
    /\ switched = FALSE
    /\ wrapper = NoWrapper
    /\ session = NoSession
    /\ \E bs \in BrowserLists, c \in Concurrencies :
         pool = [browsers |-> bs, concurrency |-> c,
                 futures |-> [w \in DOMAIN bs |-> NewFuture],
                 objects |-> [w \in DOMAIN bs |-> NewResults],
                 results |-> <<>>, returned |-> FALSE]

\* what a step of run_parallel_tests leaves alone
PoolFrame ==
    UNCHANGED <<session, wrapper, excel_path, translation_lookup, switched,
                pc, caller, driver, translations_df, results, current_page, shown,
                ret, report_file, page, uiLang, dom, change_ok, elements,
                english_elements, new_elements, lang, i, elem, calls>>

\* a thread of the pool takes the call run_test_on_browser(browser, config):
\* the call raises before its try statement (line 64 or 66), or fails inside
\* it and returns the error entry, or makes its tester and enters run_test
PoolOutcomes == {"raises", "error_entry", "run_test"}

PoolStart(w) ==
    /\ pc = "parallel"
    /\ pool.futures[w].state = "pending"
    /\ Cardinality(Running) < max_workers
    /\ log' = <<>>
    /\ \E o \in PoolOutcomes :
         /\ Fault(o # "run_test")
         /\ pool' = [pool EXCEPT
                !.futures[w].state = CASE o = "raises" -> "raised"
                                       [] o = "error_entry" -> "returned"
                                       [] o = "run_test" -> "running",
                !.futures[w].entry = IF o = "error_entry" THEN "error" ELSE @]
    /\ PoolFrame

\* self.results[f"{lang_code}_matched"] += 1, or the same on _mismatched:
\* the worker reads the counter of its tester
PoolLoad(w) ==
    /\ pc = "parallel"
    /\ pool.futures[w].state = "running"
    /\ pool.futures[w].own.matched + pool.futures[w].own.mismatched < MaxComparisons
    /\ log' = <<>>
    /\ Fault(FALSE)
    /\ \E f \in {"matched", "mismatched"} :
         pool' = [pool EXCEPT
                !.futures[w].state = "loaded",
                !.futures[w].tmp = <<f, pool.objects[ResultsOwner(w)][f]>>]
    /\ PoolFrame

\* ... and writes it back incremented; a mismatch is appended to
\* self.results["mismatches"] (the record is marked here with the worker
\* and the number of the comparison that made it)
PoolStore(w) ==
    /\ pc = "parallel"
    /\ pool.futures[w].state = "loaded"
    /\ log' = <<>>
    /\ Fault(FALSE)
    /\ LET f == pool.futures[w].tmp[1]
           v == pool.futures[w].tmp[2]
           o == ResultsOwner(w)
           k == pool.futures[w].own.matched + pool.futures[w].own.mismatched + 1
       IN pool' = [pool EXCEPT
                !.futures[w].state = "running",
                !.futures[w].tmp = <<>>,
                !.futures[w].own[f] = @ + 1,
                !.objects[o] = IF f = "matched"
                                 THEN [@ EXCEPT !.matched = v + 1]
                                 ELSE [@ EXCEPT !.mismatched = v + 1,
                                                !.mismatches = Append(@, <<w, k>>)]]
    /\ PoolFrame

\* run_test returns, and run_test_on_browser returns the entry that holds
\* tester.results
PoolReturn(w) ==
    /\ pc = "parallel"
    /\ pool.futures[w].state = "running"
    /\ log' = <<>>
    /\ Fault(FALSE)
    /\ pool' = [pool EXCEPT !.futures[w].state = "returned",
                            !.futures[w].entry = "results"]
    /\ PoolFrame

\* the entry that run_parallel_tests stores for a completed future: the
\* value of future.result(), or the error entry when result() raises
EntryOf(w) ==
    IF pool.futures[w].state = "raised"
    THEN [success |-> FALSE, worker |-> w, results |-> 0]
    ELSE IF pool.futures[w].entry = "error"
         THEN [success |-> FALSE, worker |-> w, results |-> 0]
         ELSE [success |-> TRUE, worker |-> w, results |-> ResultsOwner(w)]

\* for future in as_completed(future_to_browser): results[browser] = ...
PoolCollect(w) ==
    /\ pc = "parallel"
    /\ pool.futures[w].state \in {"returned", "raised"}
    /\ ~pool.futures[w].collected
    /\ log' = <<>>
    /\ Fault(FALSE)
    /\ LET b == pool.browsers[w]
       IN pool' = [pool EXCEPT
                !.futures[w].collected = TRUE,
                !.results = [n \in DOMAIN pool.results \cup {b} |->
                               IF n = b THEN EntryOf(w) ELSE pool.results[n]]]
    /\ PoolFrame

\* every future was yielded: return results
PoolDone ==
    /\ pc = "parallel"
    /\ \A w \in DOMAIN pool.futures : pool.futures[w].collected
    /\ pc' = "done"
    /\ log' = <<>>
    /\ Fault(FALSE)
    /\ pool' = [pool EXCEPT !.returned = TRUE]
    /\ UNCHANGED <<session, wrapper, excel_path, translation_lookup, switched,
                   caller, driver, translations_df, results, current_page, shown,
                   ret, report_file, page, uiLang, dom, change_ok, elements,
                   english_elements, new_elements, lang, i, elem, calls>>

PoolNext ==
    \/ \E w \in DOMAIN pool.futures : PoolStart(w)
    \/ \E w \in DOMAIN pool.futures : PoolLoad(w)
    \/ \E w \in DOMAIN pool.futures : PoolStore(w)
    \/ \E w \in DOMAIN pool.futures : PoolReturn(w)
    \/ \E w \in DOMAIN pool.futures : PoolCollect(w)
    \/ PoolDone

ParallelSpec == InitPool /\ [][PoolNext]_vars

-----------------------------------------------------------------------------
(* retry(max_attempts, delay, backoff, exceptions) and the wrapper it makes *)

\* largest max_attempts a function is wrapped with
MaxAttempts == 3

\* the delays and the backoff factors a function is wrapped with
Delays == {1, 2}

Backoffs == {1, 2, 3}

\* what a call of the wrapped function does: it returns, raises one of
\* the listed exceptions, or raises another exception
Outcomes == {"returns", "raises_listed", "raises_other"}

\* current_delay += backoff
next_delay_Additive(current_delay, backoff) == current_delay + backoff

\* current_delay *= backoff
next_delay(current_delay, backoff) == current_delay * backoff

\* wrapper(*args, **kwargs) is entered: attempt = 0, current_delay = delay
InitRetry ==
    /\ pc = "retry_loop"
    /\ caller = "client"
    /\ driver = "open"
    /\ excel_path \in {f \in ExcelFiles : f.others = 0 /\ f.columns = SheetColumns}
    /\ translations_df = DataFrame(excel_path)
    /\ shown = 1
    /\ dom = Render(1, "en", "same")
    /\ results = InitialResults
    /\ current_page = 0
    /\ ret = "running"
    /\ report_file = "None"
    /\ page = 0
    /\ uiLang = "en"
    /\ change_ok = TRUE
    /\ elements = <<>>
    /\ english_elements = <<>>
    /\ new_elements = <<>>
    /\ lang = "kh"
    /\ i = 0
    /\ elem = NoElem
    /\ log = <<>>
    /\ calls = 0
    /\ faults = 0
    /\ translation_lookup = <<>>
    /\ switched = FALSE
    /\ session = NoSession
    /\ pool = NoPool
    /\ \E m \in 0..MaxAttempts, d \in Delays, b \in Backoffs :
          wrapper = [max_attempts |-> m, delay |-> d, backoff |-> b, attempt |-> 0,
                     current_delay |-> d, outcomes |-> <<>>, slept |-> <<>>,
                     result |-> <<>>]

\* one iteration of "while attempt < max_attempts": func is called; its value
\* is returned, an exception that is not listed propagates, a listed one is
\* counted and either re-raised (attempt == max_attempts) or followed by
\* time.sleep(current_delay) and current_delay *= backoff
RetryAttempt ==
    /\ pc = "retry_loop"
    /\ wrapper.attempt < wrapper.max_attempts
    /\ \E outcome \in Outcomes :
         LET called == [wrapper EXCEPT !.outcomes = Append(@, outcome)]
             n == Len(called.outcomes)
         IN IF outcome = "returns"
            THEN /\ wrapper' = [called EXCEPT !.result = <<"returned", n>>]
                 /\ pc' = "retry_done"
                 /\ log' = <<>>
            ELSE IF outcome = "raises_other"
            THEN /\ wrapper' = [called EXCEPT !.result = <<"raised", outcome, n>>]
                 /\ pc' = "retry_done"
                 /\ log' = <<>>
            ELSE IF wrapper.attempt + 1 = wrapper.max_attempts
            THEN /\ wrapper' = [called EXCEPT !.attempt = @ + 1,
                                              !.result = <<"raised", outcome, n>>]
                 /\ pc' = "retry_done"
                 /\ log' = <<LogLine("retry_failed", "en", n)>>
            ELSE /\ wrapper' = [called EXCEPT
                                   !.attempt = @ + 1,
                                   !.slept = Append(@, wrapper.current_delay),
                                   !.current_delay =
                                       next_delay(wrapper.current_delay, wrapper.backoff)]
                 /\ pc' = "retry_loop"
                 /\ log' = <<LogLine("retry_warning", "en", n)>>
    /\ UNCHANGED <<pool, session, excel_path, translation_lookup, switched,
                   caller, driver, translations_df, results, current_page,
                   shown, ret, report_file, page, uiLang, dom, change_ok,
                   elements, english_elements, new_elements, lang, i, elem,
                   calls, faults>>

\* the condition of the while loop is false: the wrapper ends without a
\* return statement and gives None
RetryExit ==
    /\ pc = "retry_loop"
    /\ wrapper.attempt >= wrapper.max_attempts
    /\ wrapper' = [wrapper EXCEPT !.result = <<"returned", 0>>]
    /\ pc' = "retry_done"
    /\ log' = <<>>
    /\ UNCHANGED <<pool, session, excel_path, translation_lookup, switched,
                   caller, driver, translations_df, results, current_page,
                   shown, ret, report_file, page, uiLang, dom, change_ok,
                   elements, english_elements, new_elements, lang, i, elem,
                   calls, faults>>

RetryNext ==
    \/ RetryAttempt
    \/ RetryExit

RetrySpec == InitRetry /\ [][RetryNext]_vars

-----------------------------------------------------------------------------

Next ==
    \/ Setup
    \/ SetupDriverFails
    \/ Login
    \/ Navigate
    \/ PagesDone
    \/ GenerateReport
    \/ FinalChange
    \/ Finally
    \/ EnChange
    \/ EnSnapshot
    \/ EnLoop
    \/ EnLoopDone
    \/ LangChange
    \/ LangSnapshot
    \/ LangLoop
    \/ LangLoopDone
    \/ ClientNavigate
    \/ ClientCheckPage
    \/ OptimizeMemoryUsage
    \/ ScanDynamicContent
    \/ CheckElementEnglish
    \/ ElementChange
    \/ CheckElementLang
    \/ ElementBack
    \/ ScanDone

Spec == Init /\ [][Next]_vars

\* the steps of run_test and of the page checks it makes
RunTest ==
    \/ Setup
    \/ SetupDriverFails
    \/ Login
    \/ Navigate
    \/ PagesDone
    \/ GenerateReport
    \/ FinalChange
    \/ Finally
    \/ EnChange
    \/ EnSnapshot
    \/ EnLoop
    \/ EnLoopDone
    \/ LangChange
    \/ LangSnapshot
    \/ LangLoop
    \/ LangLoopDone

\* a new tester on which run_test is called
InitRunTest == Init /\ caller = "run_test"

\* a call of run_test on a new tester.  The tester is one sequential thread:
\* as long as a statement of run_test remains to be executed, it is executed.
FairSpec == InitRunTest /\ [][RunTest]_vars /\ WF_vars(RunTest)

\* the steps of run_test_on_browser and of the run_test it calls
WorkerNext ==
    \/ WorkerStart
    \/ WorkerReturn
    \/ RunTest

\* one worker of run_parallel_tests, which runs to its end
WorkerSpec == InitWorker /\ [][WorkerNext]_vars /\ WF_vars(WorkerNext)

-----------------------------------------------------------------------------
(* Properties *)

\* number of comparisons counted for language l
Compared(r, l) == r[MatchedField(l)] + r[MismatchedField(l)]

\* the last mismatch record of r
LastMismatch(r) == r.mismatches[Len(r.mismatches)]

\* the step appended exactly one mismatch record
OneMoreMismatch == Len(results'.mismatches) = Len(results.mismatches) + 1

\* the step logged that the element went stale
StaleLogged == \E k \in 1..Len(log') : log'[k].kind = "stale"

\* the first row of rows that satisfies P
FirstRow(rows, P(_)) ==
    rows[CHOOSE k \in 1..Len(rows) : P(rows[k]) /\ \A j \in 1..(k - 1) : ~P(rows[j])]

\* the confirmed-translation cell of a row for kh or cn
ConfirmedCell(row, l) == IF l = "kh" THEN row.KHConfirm ELSE row.CNConfirm

\* C1: in every reachable state en_matched + en_mismatched equals
\* total_elements, whichever operation performed the English comparisons.
C1_EnglishTotal ==
    results.en_matched + results.en_mismatched = results.total_elements

\* C2: every Khmer/Chinese element that is paired to a baseline English
\* element (and read without going stale) increments exactly one of the
\* language's counters; when the catalog has no entry for it, the language's
\* mismatched counter grows and a mismatch record with expected = none is
\* appended.  (Rows with a blank confirmed cell are the subject of C6.)
C2_PairedAlwaysCounted ==
    [][ /\ ( /\ pc = "lang_loop"
             /\ i <= Len(english_elements)
             /\ i <= Len(new_elements)
             /\ ~StaleLogged
             /\ \A k \in 1..Len(log') : log'[k].kind # "element_error" )
           => /\ Compared(results', lang) = Compared(results, lang) + 1
              /\ (MatchesByEN(translations_df.rows, english_elements[i].text) = <<>>)
                    => /\ results'[MismatchedField(lang)] =
                              results[MismatchedField(lang)] + 1
                       /\ OneMoreMismatch
                       /\ LastMismatch(results').expected = None
        /\ ( /\ pc = "el_find"
             /\ lang_element(dom, elem) # <<>>
             /\ \A k \in 1..Len(log') : log'[k].kind # "element_error" )
           => Compared(results', lang) = Compared(results, lang) + 1
      ]_vars

\* C3: when change_language(lang) returned False, every baseline element of
\* the page is recorded for lang as a mismatch with expected = none: the
\* mismatched counter grows by one per baseline element, the matched counter
\* does not change.  (Steps in which the element went stale, hit a blank
\* confirmed cell or has no catalog entry are left aside: see C6 and C2.)
C3_FailedSwitchAllMismatched ==
    [][ ( /\ pc = "lang_loop"
          /\ ~change_ok
          /\ i <= Len(english_elements)
          /\ \A k \in 1..Len(log') :
                log'[k].kind \notin {"stale", "element_error", "no_english_reference"} )
        => /\ results'[MismatchedField(lang)] = results[MismatchedField(lang)] + 1
           /\ results'[MatchedField(lang)] = results[MatchedField(lang)]
           /\ OneMoreMismatch
           /\ LastMismatch(results').expected = None
      ]_vars

\* C4: whenever a paired Khmer/Chinese element is compared, the expected text
\* is the confirmed-translation cell of the catalog row resolved from the
\* baseline English element (by the remembered key, else by the English
\* text): the element counts as matched exactly when its text equals that
\* cell up to case, and a mismatch record carries that cell as expected.
C4_ConfirmedColumn ==
    [][ /\ (pc = "lang_loop" /\ results' # results)
           => LET rows == translations_df.rows
                  en_text == english_elements[i].text
                  ByText(r) == r.OriginalEN # NaN /\ Lower(r.OriginalEN) = Lower(en_text)
                  ByKey(r) == r.Key = FirstRow(rows, ByText).Key
                  cell == ConfirmedCell(FirstRow(rows, ByKey), lang)
                  actual == Strip(new_elements[i].text)
              IN /\ (results'[MatchedField(lang)] = results[MatchedField(lang)] + 1)
                        <=> (Lower(actual) = Lower(cell))
                 /\ (results'[MismatchedField(lang)] = results[MismatchedField(lang)] + 1)
                        <=> (Lower(actual) # Lower(cell))
                 /\ (Len(results'.mismatches) > Len(results.mismatches))
                        => /\ LastMismatch(results').expected = cell
                           /\ LastMismatch(results').actual = actual
                           /\ Lower(actual) # Lower(cell)
        /\ (pc = "el_find" /\ results' # results)
           => LET rows == translations_df.rows
                  ByText(r) == r.OriginalEN # NaN /\ Lower(r.OriginalEN) = Lower(elem.en_text)
                  ByKey(r) == r.Key = elem.key
                  row == IF elem.key \notin {NoKey, ""} THEN FirstRow(rows, ByKey)
                         ELSE FirstRow(rows, ByText)
                  cell == ConfirmedCell(row, lang)
                  actual == Strip(lang_element(dom, elem)[1].text)
              IN /\ (results'[MatchedField(lang)] = results[MatchedField(lang)] + 1)
                        <=> (Lower(actual) = Lower(cell))
                 /\ (results'[MismatchedField(lang)] = results[MismatchedField(lang)] + 1)
                        <=> (Lower(actual) # Lower(cell))
      ]_vars

\* C4 witness: the button 'su' (row k1) was found matched in Khmer (text x,
\* the confirmed cell) and mismatched in Chinese, where the page shows the
\* 'Original CN' text v and the record expects the confirmed cell y.
C4_Witness ==
    /\ results.kh_matched >= 1
    /\ \E k \in 1..Len(results.mismatches) :
         /\ results.mismatches[k].language = "Chinese"
         /\ results.mismatches[k].actual = <<"v">>
         /\ results.mismatches[k].expected = <<"y">>

\* C5: when the element carries a translation key that is in the catalog,
\* the English comparison uses the row with that key (also when the English
\* text matches another row): the element counts as matched exactly when its
\* text equals the 'Original EN' cell of that row up to case.
C5_KeyHintWins ==
    [][ /\ ( /\ pc = "en_loop"
             /\ i <= Len(elements)
             /\ results' # results
             /\ extract_translation_key(elements[i]) \notin {NoKey, ""}
             /\ KeyInCatalog(translations_df.rows, extract_translation_key(elements[i])) )
           => LET ByKey(r) == r.Key = extract_translation_key(elements[i])
                  row == FirstRow(translations_df.rows, ByKey)
              IN (results'.en_matched = results.en_matched + 1)
                    <=> (Lower(Strip(elements[i].text)) = Lower(row.OriginalEN))
        /\ ( /\ pc = "scan_loop"
             /\ i <= Len(new_elements)
             /\ results' # results
             /\ extract_translation_key(new_elements[i]) \notin {NoKey, ""}
             /\ KeyInCatalog(translations_df.rows, extract_translation_key(new_elements[i])) )
           => LET ByKey(r) == r.Key = extract_translation_key(new_elements[i])
                  row == FirstRow(translations_df.rows, ByKey)
              IN /\ (results'.en_matched = results.en_matched + 1)
                       <=> (Lower(elem'.en_text) = Lower(row.OriginalEN))
                 /\ elem'.key = row.Key
      ]_vars

\* C6: when the row resolved for a paired element has a blank confirmed cell
\* for the language, the comparison is made with expected = "" and a
\* non-empty actual text increments the language's mismatched counter and
\* appends a mismatch record.
C6_BlankConfirmedCounted ==
    [][ ( /\ pc = "lang_loop"
          /\ i <= Len(english_elements)
          /\ i <= Len(new_elements)
          /\ ~StaleLogged
          /\ Strip(new_elements[i].text) # <<>>
          /\ MatchesByEN(translations_df.rows, english_elements[i].text) # <<>>
          /\ LET rows == translations_df.rows
                 ByText(r) == r.OriginalEN # NaN
                              /\ Lower(r.OriginalEN) = Lower(english_elements[i].text)
                 ByKey(r) == r.Key = FirstRow(rows, ByText).Key
             IN ConfirmedCell(FirstRow(rows, ByKey), lang) = NaN )
        => /\ results'[MismatchedField(lang)] = results[MismatchedField(lang)] + 1
           /\ OneMoreMismatch
           /\ LastMismatch(results').expected = <<>>
      ]_vars

\* C7: if the English snapshot and the snapshot taken after the language
\* switch have equal size and every element carries a unique id present in
\* both, every baseline element is paired with the element of identical id.
C7_PairedById ==
    ( /\ pc = "lang_loop"
      /\ Len(new_elements) = Len(elements)
      /\ Len(english_elements) = Len(elements)
      /\ \A k \in 1..Len(elements) : elements[k].id # NoId
      /\ \A j, k \in 1..Len(elements) : elements[j].id = elements[k].id => j = k
      /\ {elements[k].id : k \in 1..Len(elements)}
            = {new_elements[k].id : k \in 1..Len(new_elements)} )
    => \A k \in 1..Len(english_elements) :
          new_elements[k].id = elements[english_elements[k].index].id

\* C8: when a baseline element is looked up again after a language switch,
\* the strategies id, xpath, class set (two or more classes) and position are
\* tried in that order and one that finds no counterpart falls through to
\* the next: the element is left unpaired only if every strategy fails.
C8_FallThrough ==
    [][ ( /\ pc = "el_find"
          /\ \/ elem.element_id # NoId
                /\ find_element_safe(dom, "id", elem.element_id) # <<>>
             \/ find_element_safe(dom, "xpath", elem.element_xpath) # <<>>
             \/ Len(elem.element_class) > 1
                /\ find_element_safe(dom, "class", elem.element_class) # <<>>
             \/ i <= Len(get_page_elements(dom)) )
        => \A k \in 1..Len(log') : log'[k].kind # "not_found"
      ]_vars

\* C9: positional pairing compares the i-th element of the new snapshot with
\* the English text of the i-th element of the baseline snapshot, also when
\* baseline elements were skipped during the English phase.
C9_PositionalAligned ==
    pc = "lang_loop"
    => \A k \in 1..Len(english_elements) : english_elements[k].index = k

\* C10: for a baseline element without a counterpart in the new snapshot (its
\* index is beyond the size of the new snapshot) the language's counters do
\* not change and a line about that element is logged.
C10_UnpairedLogged ==
    [][ ( /\ pc = "lang_loop"
          /\ i <= Len(english_elements)
          /\ i > Len(new_elements) )
        => /\ Compared(results', lang) = Compared(results, lang)
           /\ \E k \in 1..Len(log') : log'[k].pos = i
      ]_vars

\* the sheet named by self.excel_path has the six columns
CompleteSheet == SheetColumns \subseteq excel_path.columns

\* C11: when one of the six columns is absent from the sheet, setup fails:
\* run_test returns False, no page is attempted and every counter stays 0;
\* when the six columns are present, loading succeeds and the run goes on to
\* the login with the rows of the sheet as its catalog.
C11_MissingColumnAborts ==
    [][ (caller = "run_test") =>
          /\ (pc = "setup" /\ driver' = "open") =>
                IF CompleteSheet
                THEN /\ pc' = "login"
                     /\ ret' = "running"
                     /\ ~translations_df'.isNone
                     /\ translations_df'.rows = excel_path.rows
                ELSE /\ pc' = "finally"
                     /\ ret' = "False"
                     /\ \E k \in 1..Len(log') : log'[k].kind = "load_failed"
          /\ ~CompleteSheet =>
                /\ results' = InitialResults
                /\ page' = 0
                /\ current_page' = 0
                /\ ret' # "True"
      ]_vars

\* C11 witness: a run over a sheet without one of the columns has ended with
\* False, the browser closed, nothing checked
C11_Witness ==
    /\ caller = "run_test"
    /\ ~CompleteSheet
    /\ pc = "done"
    /\ ret = "False"
    /\ driver = "quit"
    /\ results = InitialResults

\* C12: with several rows of the same Key in the catalog, every lookup by key
\* gives the values of the first of them: in the loaded table (the English
\* comparison and the Khmer/Chinese expected text of
\* check_element_translations) and in the key -> {en, kh, cn} mapping that
\* optimize_memory_usage projects from the table.
C12_FirstRowWins ==
    [][ /\ \A k \in 1..Len(translation_lookup') :
             LET e == translation_lookup'[k]
                 ByKey(r) == r.Key = e.key
                 row == FirstRow(excel_path.rows, ByKey)
             IN /\ e.en = row.OriginalEN
                /\ e.kh = row.KHConfirm
                /\ e.cn = row.CNConfirm
        /\ ( /\ pc = "scan_loop"
             /\ i <= Len(new_elements)
             /\ results' # results
             /\ LiveNode(dom, new_elements[i]) # <<>>
             /\ Truthy(extract_translation_key(LiveNode(dom, new_elements[i])[1]))
             /\ KeyInCatalog(translations_df.rows,
                             extract_translation_key(LiveNode(dom, new_elements[i])[1])) )
           => LET element == LiveNode(dom, new_elements[i])[1]
                  ByKey(r) == r.Key = extract_translation_key(element)
                  row == FirstRow(translations_df.rows, ByKey)
              IN (results'.en_matched = results.en_matched + 1)
                    <=> (Lower(Strip(element.text)) = Lower(row.OriginalEN))
        /\ (pc = "el_find" /\ results' # results /\ Truthy(elem.key))
           => LET ByKey(r) == r.Key = elem.key
                  cell == ConfirmedCell(FirstRow(translations_df.rows, ByKey), lang)
                  actual == Strip(lang_element(dom, elem)[1].text)
              IN (results'[MatchedField(lang)] = results[MatchedField(lang)] + 1)
                    <=> (Lower(actual) = Lower(cell))
      ]_vars

\* C13: once loaded, the catalog is not changed or removed by any operation:
\* self.translations_df stays the table that was loaded, so that a lookup by
\* key or by English text gives what it gave right after loading.
C13_CatalogImmutable ==
    [][ ~translations_df.isNone =>
          /\ translations_df' = translations_df
          /\ \A k \in 1..Len(excel_path.rows) :
                LET row == excel_path.rows[k] IN
                /\ MatchesByKey(translations_df'.rows, row.Key)
                      = MatchesByKey(excel_path.rows, row.Key)
                /\ MatchesByEN(translations_df'.rows, row.OriginalEN)
                      = MatchesByEN(excel_path.rows, row.OriginalEN)
      ]_vars

\* s is an initial segment of t
IsPrefix(s, t) == Len(s) <= Len(t) /\ SubSeq(t, 1, Len(s)) = s

\* C14: the mismatch list never holds more than max_mismatches records, and
\* it keeps the records in the order they were recorded: a step only appends
\* at the end or cuts the list to an initial segment.
C14_MismatchesCapped ==
    [][ /\ Len(results'.mismatches) <= max_mismatches
        /\ \/ IsPrefix(results.mismatches, results'.mismatches)
           \/ IsPrefix(results'.mismatches, results.mismatches)
      ]_vars

\* C15: run_test returns a passing result only when no mismatch was counted
\* in any language.
C15_VerdictFailsOnMismatch ==
    (ret = "True") =>
        results.en_mismatched + results.kh_mismatched + results.cn_mismatched = 0

\* C16: every run that got past setup and login ends with a completed
\* report, whatever the counters are, also when a language has no comparison.
C16_ReportAlwaysCompleted ==
    ( /\ caller = "run_test"
      /\ page >= 1
      /\ pc \in {"final_change", "finally", "done"} )
    => report_file = "written"

\* C17: once run_test has entered its loop over the navigation paths, every
\* path is eventually attempted, whatever fails on the pages before it, and
\* what the earlier pages added to the results is kept: no counter decreases
\* and no mismatch record is removed.
C17_EveryPageAttempted ==
    /\ \A p \in 1..MaxPages :
          (caller = "run_test" /\ pc = "pages" /\ page = 1) ~> (current_page = p)
    /\ [][ caller = "run_test" =>
             /\ results'.total_elements >= results.total_elements
             /\ \A l \in {"en", "kh", "cn"} :
                   /\ results'[MatchedField(l)] >= results[MatchedField(l)]
                   /\ results'[MismatchedField(l)] >= results[MismatchedField(l)]
             /\ IsPrefix(results.mismatches, results'.mismatches)
          ]_vars

\* C17 witness: run_test is on its second path although the first page gave
\* no comparison at all (its navigation or its snapshot failed)
C17_Witness ==
    /\ caller = "run_test"
    /\ page = 2
    /\ current_page = 2
    /\ pc = "en_change"
    /\ faults >= 1
    /\ results.total_elements = 0

\* the positions inside check_page_translations
PagePcs ==
    {"en_change", "en_snapshot", "en_loop", "lang_change", "lang_snapshot", "lang_loop"}

\* the step changed a counter of language l
Counted(l) ==
    \/ results'[MatchedField(l)] # results[MatchedField(l)]
    \/ results'[MismatchedField(l)] # results[MismatchedField(l)]

\* C18: inside a page check the phases come in the order English, Khmer,
\* Chinese.  English comparisons are counted only in the English loop, and
\* the switch to Khmer is requested only when that loop is over; Khmer
\* comparisons are counted only in the Khmer loop, and the switch to Chinese
\* is requested only when the Khmer phase is over; a Khmer or Chinese
\* snapshot is taken only in the step that follows the request of the switch
\* to that language.
C18_PhaseOrder ==
    [][ (pc \in PagePcs) =>
          /\ (Counted("en") \/ results'.total_elements # results.total_elements)
                => pc = "en_loop"
          /\ Counted("kh") => (pc = "lang_loop" /\ lang = "kh")
          /\ Counted("cn") => (pc = "lang_loop" /\ lang = "cn")
          /\ (pc' = "lang_change" /\ lang' = "kh")
                => (pc = "en_loop" /\ i > Len(elements))
          /\ (pc' = "lang_change" /\ lang' = "cn")
                => /\ lang = "kh"
                   /\ \/ pc = "lang_snapshot"
                      \/ pc = "lang_loop" /\ i > Len(english_elements)
          /\ (pc' = "lang_snapshot") => (pc = "lang_change" /\ lang' = lang)
          /\ (new_elements' # new_elements /\ new_elements' # <<>>)
                => pc = "lang_snapshot"
          /\ (pc' = "lang_loop" /\ pc # "lang_loop") => pc = "lang_snapshot"
      ]_vars

\* C18 witness: a page check is in its Chinese loop and has counted
\* comparisons in English, in Khmer and in Chinese
C18_Witness ==
    /\ pc = "lang_loop"
    /\ lang = "cn"
    /\ Compared(results, "en") >= 1
    /\ Compared(results, "kh") >= 1
    /\ Compared(results, "cn") >= 1

\* every element of the snapshot s has text left after strip()
NoEmptyText(s) == \A k \in 1..Len(s) : Strip(s[k].text) # <<>>

\* C19: no snapshot returned by get_page_elements holds an element whose
\* trimmed text is empty, and no comparison is counted for an element whose
\* trimmed text is empty, in either operation.
C19_NoEmptyText ==
    [][ /\ NoEmptyText(elements')
        /\ NoEmptyText(new_elements')
        /\ (pc = "en_loop" /\ results' # results)
              => Strip(elements[i].text) # <<>>
        /\ (pc = "lang_loop" /\ results' # results)
              => Strip(new_elements[i].text) # <<>>
        /\ (pc = "scan_loop" /\ results' # results)
              => Strip(LiveNode(dom, new_elements[i])[1].text) # <<>>
        /\ (pc = "el_find" /\ results' # results)
              => Strip(lang_element(dom, elem)[1].text) # <<>>
      ]_vars

\* C20: taking a snapshot never fails: the step that takes the English
\* snapshot, or the snapshot after a language switch, always delivers the
\* list of elements and goes on to the comparison loop of the page check,
\* also when a node of the page disappears meanwhile.
C20_SnapshotTolerant ==
    [][ /\ (pc = "en_snapshot") => (pc' = "en_loop" /\ Len(elements') <= Len(dom))
        /\ (pc = "lang_snapshot") => (pc' = "lang_loop" /\ Len(new_elements') <= Len(dom))
      ]_vars

\* the position in the page d of the node that the handle e refers to
DocPos(d, e) == CHOOSE k \in 1..Len(d) : d[k].eid = e.eid

\* the snapshot s of the page d lists nodes of d in the order of the
\* document, each once
DocOrdered(s, d) ==
    /\ \A k \in 1..Len(s) : \E j \in 1..Len(d) : d[j].eid = s[k].eid
    /\ \A j, k \in 1..Len(s) : j < k => DocPos(d, s[j]) < DocPos(d, s[k])

\* C21: the sequence a snapshot returns is in document order, whatever the
\* tags of its elements, and holds no element twice: in the page check (the
\* English snapshot and the one after each switch) and in scan_dynamic_content.
C21_DocumentOrder ==
    [][ /\ (pc = "en_snapshot" /\ pc' = "en_loop") => DocOrdered(elements', dom)
        /\ (pc = "lang_snapshot" /\ pc' = "lang_loop") => DocOrdered(new_elements', dom)
        /\ (pc = "idle" /\ pc' = "scan_loop") => DocOrdered(new_elements', dom)
      ]_vars

\* C22: a comparison counts as matched exactly when the text on the screen
\* and the expected cell of the catalog are equal after strip() and lower()
\* of both sides (a lookup that finds no row is not matched): in both loops
\* of the page check and in check_element_translations.  (Comparisons made
\* after a language switch that failed are left aside: see C3.)
C22_TrimmedCaseFoldedEquality ==
    [][ /\ (pc = "en_loop" /\ Counted("en"))
           => LET r == check_translation(translations_df.rows,
                                         Strip(elements[i].text), "en")
              IN (results'.en_matched = results.en_matched + 1)
                    <=> /\ r.expected # None
                        /\ Lower(Strip(elements[i].text)) = Lower(Strip(r.expected))
        /\ (pc = "lang_loop" /\ change_ok /\ Counted(lang))
           => LET expected == expected_translation(translations_df.rows,
                                                   english_elements[i].text, lang)
              IN (results'[MatchedField(lang)] = results[MatchedField(lang)] + 1)
                    <=> Lower(Strip(new_elements[i].text)) = Lower(Strip(expected))
        /\ (pc = "el_find" /\ change_ok /\ Counted(lang))
           => LET expected ==
                      ConfirmColumn(element_matches(translations_df.rows, elem)[1], lang)
              IN (results'[MatchedField(lang)] = results[MatchedField(lang)] + 1)
                    <=> Lower(Strip(lang_element(dom, elem)[1].text))
                           = Lower(Strip(expected))
      ]_vars

\* the least number of a non-empty set of numbers
Least(S) == CHOOSE k \in S : \A j \in S : k <= j

\* C23: extract_translation_key returns the key by fixed precedence: the
\* first non-empty attribute of data-translation-key, data-i18n, data-key,
\* i18n-key; else the suffix of the first class that starts with i18n- or
\* trans-; else the suffix of an id that starts with trans. or i18n.; else
\* None.  A later source is not used when an earlier one yields a key.
C23_KeyPrecedence ==
    [][ (pc = "extract_key" /\ log' = <<>>)
        => LET n == dom[1]
               withAttr == {k \in 1..Len(KeyAttrs) : n.attrs[KeyAttrs[k]] # ""}
               withClass == {k \in 1..Len(n.cls) : n.cls[k].pre \in {"i18n-", "trans-"}}
           IN elem'.key =
                 IF withAttr # {} THEN n.attrs[KeyAttrs[Least(withAttr)]]
                 ELSE IF withClass # {} THEN n.cls[Least(withClass)].rest
                 ELSE IF n.id.pre \in {"trans.", "i18n."} THEN n.id.rest
                 ELSE NoKey
      ]_vars

\* C23 witness: for an element without key attribute, whose second class is
\* trans-kf and whose id is i18n.kh, the key kf of the class was returned
C23_Witness ==
    /\ pc = "key_extracted"
    /\ \A k \in 1..Len(KeyAttrs) : dom[1].attrs[KeyAttrs[k]] = ""
    /\ dom[1].cls = << [pre |-> "", rest |-> "btn"], [pre |-> "trans-", rest |-> "kf"] >>
    /\ dom[1].id = [pre |-> "i18n.", rest |-> "kh"]
    /\ elem.key = "kf"

\* C25: an element handle is read (its text, attributes or xpath) only if it
\* was obtained since the most recent language switch: whenever a loop is
\* about to read the next handle of a snapshot, no switch has happened since
\* that snapshot was taken.
C25_NoHandleAcrossSwitch ==
    /\ (pc = "en_loop" /\ i <= Len(elements)) => ~switched
    /\ (pc = "lang_loop" /\ i <= Len(english_elements) /\ i <= Len(new_elements))
          => ~switched
    /\ (pc = "scan_loop" /\ i <= Len(new_elements)) => ~switched

\* C27: whenever run_test is about to call navigate_to_page, the UI language
\* is English; in particular the language is back to English when
\* check_page_translations has finished a page and the next path is navigated.
C27_NavigateInEnglish ==
    (caller = "run_test" /\ pc = "pages" /\ page <= MaxPages) => uiLang = "en"

\* number of records of the list m that carry the language name n
RecordsOf(m, n) == Cardinality({k \in 1..Len(m) : m[k].language = n})

\* C28: for each language the number of mismatch records that carry it
\* equals the language's mismatched counter, whichever operation compared:
\* both are 0 at first, and every step that does not cut the list adds as
\* many records of a language as it adds to that language's counter (a
\* matched comparison adds none).
C28_RecordsEqualCounters ==
    [][ (Len(results'.mismatches) >= Len(results.mismatches))
        => \A l \in {"en", "kh", "cn"} :
              RecordsOf(results'.mismatches, lang_name(l))
                 - RecordsOf(results.mismatches, lang_name(l))
              = results'[MismatchedField(l)] - results[MismatchedField(l)]
      ]_vars

\* C29: a page check counts, for Khmer and for Chinese, at most as many
\* comparisons as it counted for English; hence, in a state in which every
\* English comparison was made by check_page_translations (they all count
\* into total_elements), the matches of the three languages are at most
\* 3 * total_elements and the match rate of the report is at most 100.
C29_RateAtMostHundred ==
    /\ \A l \in {"kh", "cn"} : Compared(results, l) <= Compared(results, "en")
    /\ (Compared(results, "en") = results.total_elements)
          => LET total_checks == results.total_elements * 3
                 total_matches == results.en_matched + results.kh_matched
                                     + results.cn_matched
             IN /\ total_matches <= total_checks
                /\ total_checks > 0 => (total_matches * 100) \div total_checks <= 100

\* C29 witness: run_test has ended after page checks that compared elements
\* in the three languages and found Khmer text matching
C29_Witness ==
    /\ caller = "run_test"
    /\ pc = "done"
    /\ results.total_elements >= 2
    /\ results.kh_matched >= 1
    /\ Compared(results, "cn") >= 1

RECURSIVE Power(_, _)
Power(b, n) == IF n = 0 THEN 1 ELSE b * Power(b, n - 1)

Created(d) ==
    IF d = "provided" THEN session.local # "none"
    ELSE driver # "none" /\ ~session.aliased

Requested == {pool.browsers[w] : w \in DOMAIN pool.browsers}

=============================================================================
